---- MODULE Spec2Model ----
(***************************************************************************)
(* Grid layout engine of the Kalshi trading terminal.                      *)
(*                                                                         *)
(* Spec  : the vanilla TypeScript GridLayout component (drag, drop,        *)
(*         resize, breakpoints) on top of the EventTarget workspace store. *)
(* ZSpec : the zustand workspace store of the React client (addWidget with *)
(*         findNextPosition, removeWidget, resetWorkspace, loadPreset).    *)
(* StoreSpec : the exported functions of the vanilla store on their own.   *)
(* NSpec : drag and drop with pointer coordinates that are not finite.     *)
(* GSpec : calculateGridPosition over pointer positions and window widths. *)
(* WsSpec : the subscriptions of the WebSocket server.                     *)
(*                                                                         *)
(* Layout items are JavaScript objects: the store's arrays and the         *)
(* GridLayout's arrays hold references, so the model keeps a heap of item  *)
(* objects and arrays of references into it.                               *)
(***************************************************************************)
EXTENDS Integers, Sequences, FiniteSets, TLC

\* ------------------------------------------------------------------ bounds
MaxWidgets == 2
MaxClock == 1
MaxCounter == 4
MaxRow == 10
MaxSubs == 3

\* ------------------------------------------------------- program constants
GRID_COLS == 12
ROW_HEIGHT == 40
MARGIN == 6
PADDING == 12

Breakpoints == {"lg", "md", "sm"}

\* The widget type the environment asks the vanilla store for when the
\* GridLayout is on the page, the types callers of the store's functions ask
\* for, and the types asked of the zustand store.
WidgetTypes == {"orderbook"}
StoreWidgetTypes == {"orderbook", "chart"}
ZWidgetTypes == {"orderbook", "chart"}

DEFAULT_WIDGET_SIZES ==
  [ t \in {"orderbook", "chart", "trade-history", "market-selector", "quote", "watchlist"} |->
      CASE t = "orderbook"       -> [w |-> 3, h |-> 5, minW |-> 2, minH |-> 3]
        [] t = "chart"           -> [w |-> 5, h |-> 4, minW |-> 3, minH |-> 3]
        [] t = "trade-history"   -> [w |-> 3, h |-> 4, minW |-> 2, minH |-> 3]
        [] t = "market-selector" -> [w |-> 3, h |-> 6, minW |-> 2, minH |-> 3]
        [] t = "quote"           -> [w |-> 3, h |-> 4, minW |-> 2, minH |-> 3]
        [] t = "watchlist"       -> [w |-> 3, h |-> 5, minW |-> 2, minH |-> 3] ]

\* ------------------------------------------------------- environment inputs
\* window.innerWidth values around the two thresholds (one per breakpoint),
\* pointer positions of drag and mouse events in pixels (x: column 2 at each
\* of the widths, and a column right of the last one a widget can start in;
\* y: row 3), and the position of the mousedown on a resize handle.
Widths == {767, 768, 1024}
PointerXs == {187, 1000}
PointerYs == {160}
ResizeGrabs == {[x |-> 340, y |-> 90]}

\* WebSocket server: the connections and the tickers they ask for.
Clients == {"ws1", "ws2"}
Tickers == {"KXA", "KXB"}

\* ------------------------------------------------------------------- state
VARIABLES
  now,               \* Date.now()
  widgets,           \* workspaceStore state.widgets: sequence of widget instances
  layouts,           \* workspaceStore state.layouts: breakpoint -> sequence of item references
  heap,              \* the LayoutItem objects, by reference
  activeWidgetId,    \* workspaceStore state.activeWidgetId
  mounted,           \* BaseComponent.isMounted of the GridLayout
  glWidgets,         \* GridLayout.widgets
  glLayouts,         \* GridLayout.layouts
  containers,        \* the widget containers render() put into the grid container
  widgetComponents,  \* GridLayout.widgetComponents: ids that have a mounted component
  innerWidth,        \* window.innerWidth
  currentBreakpoint, \* GridLayout.currentBreakpoint
  draggedWidgetId,   \* GridLayout.draggedWidgetId
  resizingWidgetId,  \* GridLayout.resizingWidgetId
  resizeStartPos,    \* GridLayout.resizeStartPos
  resizeStartSize,   \* GridLayout.resizeStartSize
  docListeners,      \* document mousemove/mouseup listeners of the resize are attached
  placeholder,       \* GridLayout.placeholder element: display and grid placement
  outcome,           \* what the last event did: a store change, a window resize,
                     \* a drop, the release of a resize, or "-" for anything else
  widgetCounter,     \* zustand store module: widgetCounter
  zWidgets,          \* useWorkspaceStore widgets
  zLayouts,          \* useWorkspaceStore layouts: breakpoint -> sequence of items
  readyState,        \* WebSocket server: readyState of each connection
  wsSubscriptions,   \* ws.subscriptions of each connection: set of tickers
  subscriptions,     \* the Map ticker -> { clients, lastData, pollInterval }
  intervals,         \* the running setInterval(pollData) timers
  inFlight,          \* pollData calls waiting for the Kalshi API
  subCounter         \* number of subscription objects created so far

storeVars == <<widgets, layouts, heap, activeWidgetId>>
viewVars == <<glWidgets, glLayouts, containers, widgetComponents>>
glVars == <<mounted, glWidgets, glLayouts, containers, widgetComponents, innerWidth,
            currentBreakpoint>>
dragVars == <<draggedWidgetId>>
resizeVars == <<resizingWidgetId, resizeStartPos, resizeStartSize, docListeners>>
zVars == <<widgetCounter, zWidgets, zLayouts>>
wsVars == <<readyState, wsSubscriptions, subscriptions, intervals, inFlight, subCounter>>
appVars == <<now, widgets, layouts, heap, activeWidgetId, mounted, glWidgets, glLayouts,
          containers, widgetComponents, innerWidth,
          currentBreakpoint, draggedWidgetId, resizingWidgetId, resizeStartPos,
          resizeStartSize, docListeners, placeholder, outcome,
          widgetCounter, zWidgets, zLayouts>>
vars == <<appVars, wsVars>>

\* ----------------------------------------------------------------- helpers
Max(a, b) == IF a >= b THEN a ELSE b
Min(a, b) == IF a <= b THEN a ELSE b

SetMax(S) == CHOOSE m \in S : \A n \in S : n <= m

Range(s) == { s[k] : k \in 1..Len(s) }

\* Array.prototype.filter
RECURSIVE SeqFilter(_, _)
SeqFilter(s, keep) ==
  IF s = <<>> THEN <<>>
  ELSE IF keep[Head(s)] THEN <<Head(s)>> \o SeqFilter(Tail(s), keep)
       ELSE SeqFilter(Tail(s), keep)

Null == [type |-> "null", t |-> 0]
Undefined == [x |-> -1, y |-> -1]
UndefinedSize == [w |-> 0, h |-> 0]

EmptyLayouts == [bp \in Breakpoints |-> <<>>]

\* `${type}-${Date.now()}`
newId(type) == [type |-> type, t |-> now]

\* Store.getState().layouts as JSON.stringify sees it: the arrays with the
\* current contents of the referenced objects.
Deref(ls, h) == [bp \in Breakpoints |-> [k \in 1..Len(ls[bp]) |-> h[ls[bp][k]]]]

\* Objects no array references any more are garbage.
Live(ls, gls) == UNION { Range(ls[bp]) \cup Range(gls[bp]) : bp \in Breakpoints }
Collect(h, ls, gls) == [r \in (DOMAIN h) \cap Live(ls, gls) |-> h[r]]

\* Two rectangles overlap on both axes.
Overlap(a, b) ==
  /\ a.x < b.x + b.w
  /\ a.x + a.w > b.x
  /\ a.y < b.y + b.h
  /\ a.y + a.h > b.y


\* ====================================================== workspaceStore.ts
\* The first unused object reference.
NewRef(h) == CHOOSE r \in 1..(MaxWidgets + 1) :
               /\ r \notin DOMAIN h
               /\ \A q \in 1..(r - 1) : q \in DOMAIN h

\* Place in the first available spot, or at the bottom: the code always
\* answers the bottom left.
findAvailablePosition(layout) ==
  IF Len(layout) = 0 THEN [x |-> 0, y |-> 0]
  ELSE LET maxY == SetMax({ layout[k].y + layout[k].h : k \in 1..Len(layout) })
       IN [x |-> 0, y |-> maxY]

\* element.style grid placement written by applyGridLayout; the two ends are
\* the numbers of the 'span n' values.
applyGridLayout(x, y, w, h) ==
  [gridColumnStart |-> x + 1, gridColumnEnd |-> w, gridRowStart |-> y + 1, gridRowEnd |-> h]

\* The style of an element no grid placement was applied to.
NoStyle ==
  [gridColumnStart |-> 0, gridColumnEnd |-> 0, gridRowStart |-> 0, gridRowEnd |-> 0]

\* The container of a widget: its placement is that of the first layout item
\* with the widget's id, if there is one.
createWidgetContainer(widget, layout, h) ==
  LET found == { k \in 1..Len(layout) : h[layout[k]].i = widget.id }
  IN [widgetId |-> widget.id,
      style |-> IF found = {} THEN NoStyle
                ELSE LET layoutItem == h[layout[CHOOSE k \in found : \A j \in found : k <= j]]
                     IN applyGridLayout(layoutItem.x, layoutItem.y, layoutItem.w, layoutItem.h)]

\* GridLayout.render: a fresh grid container with one widget container per
\* widget, placed by the layout of the breakpoint.
\* render() with the components the map holds before it. A container gets
\* its widget's root element only from a component that mount() has not
\* mounted before: BaseComponent.mount returns at once when isMounted is set.
render(ws, ls, h, bp, comps) ==
  [k \in 1..Len(ws) |->
     LET widgetContainer == createWidgetContainer(ws[k], ls[bp], h)
     IN [widgetId |-> widgetContainer.widgetId,
         style |-> widgetContainer.style,
         hasComponent |-> /\ ws[k].id \notin comps
                          /\ \A j \in 1..(k - 1) : ws[j].id # ws[k].id]]

\* The ids of a widget list.
WidgetIds(ws) == { ws[k].id : k \in 1..Len(ws) }

\* The GridLayout's subscriber (onMount): what the component holds and shows
\* after the store dispatched a change event with state (w2, l2) while the
\* objects have contents h2.
\* The subscriber without cleanupRemovedWidgets.
storeSubscriber_noCleanup(w2, l2, h2) ==
  LET widgetsChanged == w2 # glWidgets
      layoutsChanged == Deref(l2, h2) # Deref(glLayouts, h2)
      kept == widgetComponents
  IN IF mounted /\ (widgetsChanged \/ layoutsChanged)
     THEN [widgets |-> w2, layouts |-> l2,
           containers |-> render(w2, l2, h2, currentBreakpoint, kept),
           components |-> kept \cup WidgetIds(w2)]
     ELSE [widgets |-> glWidgets, layouts |-> glLayouts,
           containers |-> containers, components |-> widgetComponents]

storeSubscriber(w2, l2, h2) ==
  LET widgetsChanged == w2 # glWidgets
      layoutsChanged == Deref(l2, h2) # Deref(glLayouts, h2)
      \* cleanupRemovedWidgets
      kept == IF widgetsChanged THEN widgetComponents \cap WidgetIds(w2) ELSE widgetComponents
  IN IF mounted /\ (widgetsChanged \/ layoutsChanged)
     THEN [widgets |-> w2, layouts |-> l2,
           containers |-> render(w2, l2, h2, currentBreakpoint, kept),
           components |-> kept \cup WidgetIds(w2)]
     ELSE [widgets |-> glWidgets, layouts |-> glLayouts,
           containers |-> containers, components |-> widgetComponents]

\* Store.setState: replace the state, then dispatch 'change' to the subscriber.
setState(w2, l2, h2, a2) ==
  LET gl == storeSubscriber(w2, l2, h2)
  IN /\ widgets' = w2
     /\ layouts' = l2
     /\ activeWidgetId' = a2
     /\ glWidgets' = gl.widgets
     /\ glLayouts' = gl.layouts
     /\ containers' = gl.containers
     /\ widgetComponents' = gl.components
     /\ heap' = Collect(h2, l2, gl.layouts)

addWidget(type) ==
  /\ Len(widgets) < MaxWidgets
  /\ findAvailablePosition(Deref(layouts, heap)["lg"]).y <= MaxRow
  /\ LET newId_ == newId(type)
         position == findAvailablePosition(Deref(layouts, heap)["lg"])
         size == DEFAULT_WIDGET_SIZES[type]
         newLayoutItem == [i |-> newId_, x |-> position.x, y |-> position.y,
                           w |-> size.w, h |-> size.h,
                           minW |-> size.minW, minH |-> size.minH]
         r == NewRef(heap)
         h2 == [q \in (DOMAIN heap) \cup {r} |-> IF q = r THEN newLayoutItem ELSE heap[q]]
     IN setState(Append(widgets, [id |-> newId_, type |-> type]),
                 [bp \in Breakpoints |-> Append(layouts[bp], r)],
                 h2, activeWidgetId)
  /\ outcome' = "change"
  /\ UNCHANGED <<wsVars, now, mounted, innerWidth, currentBreakpoint, dragVars, resizeVars,
                 placeholder, zVars>>

\* widgets.filter((w) => w.id !== widgetId)
withoutWidget(ws, widgetId) == SeqFilter(ws, [w \in Range(ws) |-> w.id # widgetId])

\* layouts.<bp>.filter((l) => l.i !== widgetId), for the three breakpoints
withoutItem(ls, h, widgetId) ==
  [bp \in Breakpoints |-> SeqFilter(ls[bp], [r \in Range(ls[bp]) |-> h[r].i # widgetId])]

\* removeWidget that takes the widget off the list and leaves its items.
removeWidget_keepsItems(widgetId) ==
  /\ setState(withoutWidget(widgets, widgetId), layouts, heap,
              IF activeWidgetId = widgetId THEN Null ELSE activeWidgetId)
  /\ outcome' = "change"
  /\ UNCHANGED <<wsVars, now, mounted, innerWidth, currentBreakpoint, dragVars, resizeVars,
                 placeholder, zVars>>

\* removeWidget that filters the lg layout only.
removeWidget_lgOnly(widgetId) ==
  /\ setState(withoutWidget(widgets, widgetId),
              [withoutItem(layouts, heap, widgetId) EXCEPT !["md"] = layouts["md"],
                                                           !["sm"] = layouts["sm"]],
              heap,
              IF activeWidgetId = widgetId THEN Null ELSE activeWidgetId)
  /\ outcome' = "change"
  /\ UNCHANGED <<wsVars, now, mounted, innerWidth, currentBreakpoint, dragVars, resizeVars,
                 placeholder, zVars>>

removeWidget(widgetId) ==
  /\ setState(withoutWidget(widgets, widgetId), withoutItem(layouts, heap, widgetId),
              heap,
              IF activeWidgetId = widgetId THEN Null ELSE activeWidgetId)
  /\ outcome' = "change"
  /\ UNCHANGED <<wsVars, now, mounted, innerWidth, currentBreakpoint, dragVars, resizeVars,
                 placeholder, zVars>>

clearWorkspace ==
  /\ widgets # <<>>
  /\ setState(<<>>, EmptyLayouts, heap, Null)
  /\ outcome' = "change"
  /\ UNCHANGED <<wsVars, now, mounted, innerWidth, currentBreakpoint, dragVars, resizeVars,
                 placeholder, zVars>>

\* updateLayout(breakpoint, layout), with the objects as the caller left them.
updateLayout(breakpoint, layout, h2) ==
  setState(widgets, [layouts EXCEPT ![breakpoint] = layout], h2, activeWidgetId)

setActiveWidget(widgetId) ==
  /\ setState(widgets, layouts, heap, widgetId)
  /\ outcome' = "change"
  /\ UNCHANGED <<wsVars, now, mounted, innerWidth, currentBreakpoint, dragVars, resizeVars,
                 placeholder, zVars>>

\* The clock advances between calls (or does not).
Tick ==
  /\ now < MaxClock
  /\ now' = now + 1
  /\ outcome' = "-"
  /\ UNCHANGED <<wsVars, storeVars, glVars, dragVars, resizeVars, placeholder, zVars>>


\* ============================================================ GridLayout
\* The breakpoint updateBreakpoint selects for a window width.
updateBreakpoint_strict(width) ==
  IF width > 1024 THEN "lg"
  ELSE IF width > 768 THEN "md"
  ELSE "sm"

updateBreakpoint(width) ==
  IF width >= 1024 THEN "lg"
  ELSE IF width >= 768 THEN "md"
  ELSE "sm"

\* gridContainer.getBoundingClientRect() and its computed padding: the grid
\* fills the window width from the origin, with the grid's padding.
containerRect == [left |-> 0, top |-> 0, width |-> innerWidth]
paddingLeft == PADDING
paddingTop == PADDING
paddingRight == PADDING

\* columnWidth + MARGIN, times GRID_COLS (kept as an integer):
\*   columnWidth = (availableWidth - MARGIN * (GRID_COLS - 1)) / GRID_COLS
cellWidthTimesCols ==
  LET availableWidth == containerRect.width - paddingLeft - paddingRight
      totalMarginWidth == MARGIN * (GRID_COLS - 1)
  IN (availableWidth - totalMarginWidth) + MARGIN * GRID_COLS

\* Math.round(n / d) for d > 0: halves round up.
Round(n, d) == (2 * n + d) \div (2 * d)

\* The cell under the pointer without the clamps.
calculateGridPosition_unclamped(clientX, clientY) ==
  LET relativeX == clientX - containerRect.left - paddingLeft
      relativeY == clientY - containerRect.top - paddingTop
      \* Math.floor(relativeX / (columnWidth + MARGIN))
      x == (relativeX * GRID_COLS) \div cellWidthTimesCols
      y == relativeY \div (ROW_HEIGHT + MARGIN)
  IN [x |-> x, y |-> y]

calculateGridPosition(clientX, clientY) ==
  LET relativeX == clientX - containerRect.left - paddingLeft
      relativeY == clientY - containerRect.top - paddingTop
      \* Math.floor(relativeX / (columnWidth + MARGIN))
      x == Max(0, Min(GRID_COLS - 1, (relativeX * GRID_COLS) \div cellWidthTimesCols))
      y == Max(0, relativeY \div (ROW_HEIGHT + MARGIN))
  IN [x |-> x, y |-> y]

\* currentLayout.find(l => l.i === widgetId): the index of the first item
\* with that id, 0 when there is none.
findIndex(layout, widgetId) ==
  IF \E k \in 1..Len(layout) : heap[layout[k]].i = widgetId
  THEN CHOOSE k \in 1..Len(layout) :
         /\ heap[layout[k]].i = widgetId
         /\ \A j \in 1..(k - 1) : heap[layout[j]].i # widgetId
  ELSE 0

\* An overlap test that also counts rectangles sharing an edge.
hasCollision_touching(item, excludeId) ==
  LET currentLayout == glLayouts[currentBreakpoint]
  IN \E k \in 1..Len(currentLayout) :
       LET layoutItem == heap[currentLayout[k]]
       IN /\ layoutItem.i # excludeId
          /\ item.x <= layoutItem.x + layoutItem.w
          /\ item.x + item.w >= layoutItem.x
          /\ item.y <= layoutItem.y + layoutItem.h
          /\ item.y + item.h >= layoutItem.y

hasCollision(item, excludeId) ==
  LET currentLayout == glLayouts[currentBreakpoint]
  IN \E k \in 1..Len(currentLayout) :
       LET layoutItem == heap[currentLayout[k]]
       IN /\ layoutItem.i # excludeId
          /\ item.x < layoutItem.x + layoutItem.w
          /\ item.x + item.w > layoutItem.x
          /\ item.y < layoutItem.y + layoutItem.h
          /\ item.y + item.h > layoutItem.y

NoPlaceholder == [display |-> "absent", style |-> applyGridLayout(0, 0, 0, 0)]

showPlaceholder(x, y, w, h) == [display |-> "block", style |-> applyGridLayout(x, y, w, h)]

hidePlaceholder ==
  IF placeholder.display = "absent" THEN placeholder
  ELSE [placeholder EXCEPT !.display = "none"]

\* Ids of the widget containers (and resize handles) on the page.
RenderedIds ==
  IF mounted THEN { containers[k].widgetId : k \in 1..Len(containers) } ELSE {}

\* vanilla-main.ts: gridLayout.mount(mainContainer) -> onMount
onMount ==
  /\ ~mounted
  /\ mounted' = TRUE
  /\ glWidgets' = widgets
  /\ glLayouts' = layouts
  /\ containers' = render(widgets, layouts, heap, currentBreakpoint, widgetComponents)
  /\ widgetComponents' = widgetComponents \cup WidgetIds(widgets)
  /\ outcome' = "-"
  /\ UNCHANGED <<wsVars, now, storeVars, innerWidth, currentBreakpoint, dragVars, resizeVars,
                 placeholder, zVars>>

\* window 'resize' event
\* A resize handler that moves every item to column 0 on a switch.
setupBreakpointListener_resetsColumns(width) ==
  /\ width # innerWidth
  /\ innerWidth' = width
  /\ LET newBreakpoint == updateBreakpoint(width)
     IN /\ currentBreakpoint' = newBreakpoint
        /\ IF newBreakpoint # currentBreakpoint
           THEN /\ containers' = render(glWidgets, glLayouts, heap, newBreakpoint, widgetComponents)
                /\ widgetComponents' = widgetComponents \cup WidgetIds(glWidgets)
           ELSE UNCHANGED <<containers, widgetComponents>>
  /\ outcome' = "resize"
  /\ heap' = [r \in DOMAIN heap |-> [heap[r] EXCEPT !.x = 0]]
  /\ UNCHANGED <<wsVars, now, widgets, layouts, activeWidgetId, mounted, glWidgets, glLayouts, dragVars, resizeVars,
                 placeholder, zVars>>

setupBreakpointListener(width) ==
  /\ width # innerWidth
  /\ innerWidth' = width
  /\ LET newBreakpoint == updateBreakpoint(width)
     IN /\ currentBreakpoint' = newBreakpoint
        /\ IF newBreakpoint # currentBreakpoint
           THEN /\ containers' = render(glWidgets, glLayouts, heap, newBreakpoint, widgetComponents)
                /\ widgetComponents' = widgetComponents \cup WidgetIds(glWidgets)
           ELSE UNCHANGED <<containers, widgetComponents>>
  /\ outcome' = "resize"
  /\ UNCHANGED <<wsVars, now, storeVars, mounted, glWidgets, glLayouts, dragVars, resizeVars,
                 placeholder, zVars>>

handleDragStart(widgetId) ==
  /\ widgetId \in RenderedIds
  /\ draggedWidgetId' = widgetId
  /\ outcome' = "-"
  /\ UNCHANGED <<wsVars, now, storeVars, glVars, resizeVars, placeholder, zVars>>

handleDragEnd ==
  /\ draggedWidgetId # Null
  /\ draggedWidgetId' = Null
  /\ outcome' = "-"
  /\ UNCHANGED <<wsVars, now, storeVars, glVars, resizeVars, placeholder, zVars>>

\* handleDragOver that moves the widget while the pointer moves.
handleDragOver_movesLive(clientX, clientY) ==
  /\ mounted
  /\ LET gridPos == calculateGridPosition(clientX, clientY)
         currentLayout == glLayouts[currentBreakpoint]
         k == findIndex(currentLayout, draggedWidgetId)
     IN IF draggedWidgetId # Null /\ k # 0
        THEN /\ placeholder' = showPlaceholder(gridPos.x, gridPos.y,
                                               heap[currentLayout[k]].w,
                                               heap[currentLayout[k]].h)
             /\ updateLayout(currentBreakpoint, currentLayout,
                             [heap EXCEPT ![currentLayout[k]].y = gridPos.y])
        ELSE UNCHANGED <<placeholder, storeVars, viewVars>>
  /\ outcome' = "-"
  /\ UNCHANGED <<wsVars, now, mounted, innerWidth, currentBreakpoint, dragVars, resizeVars, zVars>>

handleDragOver(clientX, clientY) ==
  /\ mounted
  /\ IF draggedWidgetId = Null
     THEN UNCHANGED placeholder
     ELSE LET gridPos == calculateGridPosition(clientX, clientY)
              currentLayout == glLayouts[currentBreakpoint]
              k == findIndex(currentLayout, draggedWidgetId)
          IN IF k # 0
             THEN placeholder' = showPlaceholder(gridPos.x, gridPos.y,
                                                 heap[currentLayout[k]].w,
                                                 heap[currentLayout[k]].h)
             ELSE UNCHANGED placeholder
  /\ outcome' = "-"
  /\ UNCHANGED <<wsVars, now, storeVars, glVars, dragVars, resizeVars, zVars>>

\* moveWidgetToPosition without the clamp of x to the grid.
moveWidgetToPosition_noClamp(widgetId, x, y) ==
  LET currentLayout == glLayouts[currentBreakpoint]
      k == findIndex(currentLayout, widgetId)
  IN IF k = 0
     THEN /\ outcome' = "drop:notFound"
          /\ UNCHANGED <<storeVars, viewVars>>
     ELSE LET widgetLayout == heap[currentLayout[k]]
              newX == x
              newY == Max(0, y)
              tempItem == [widgetLayout EXCEPT !.x = newX, !.y = newY]
          IN IF hasCollision(tempItem, widgetId)
             THEN /\ outcome' = "drop:collision"
                  /\ UNCHANGED <<storeVars, viewVars>>
             ELSE /\ updateLayout(currentBreakpoint, currentLayout,
                                  [heap EXCEPT ![currentLayout[k]] = tempItem])
                  /\ outcome' = "drop:moved"

\* moveWidgetToPosition that writes the new x but forgets the new y.
moveWidgetToPosition_keepsRow(widgetId, x, y) ==
  LET currentLayout == glLayouts[currentBreakpoint]
      k == findIndex(currentLayout, widgetId)
  IN IF k = 0
     THEN /\ outcome' = "drop:notFound"
          /\ UNCHANGED <<storeVars, viewVars>>
     ELSE LET widgetLayout == heap[currentLayout[k]]
              maxX == Max(0, GRID_COLS - widgetLayout.w)
              newX == Max(0, Min(maxX, x))
              newY == Max(0, y)
              tempItem == [widgetLayout EXCEPT !.x = newX, !.y = newY]
          IN IF hasCollision(tempItem, widgetId)
             THEN /\ outcome' = "drop:collision"
                  /\ UNCHANGED <<storeVars, viewVars>>
             ELSE /\ updateLayout(currentBreakpoint, currentLayout,
                                  [heap EXCEPT ![currentLayout[k]].x = newX])
                  /\ outcome' = "drop:moved"

\* The effect of moveWidgetToPosition on the store and the component, and the
\* path it took.
moveWidgetToPosition(widgetId, x, y) ==
  LET currentLayout == glLayouts[currentBreakpoint]
      k == findIndex(currentLayout, widgetId)
  IN IF k = 0
     THEN /\ outcome' = "drop:notFound"
          /\ UNCHANGED <<storeVars, viewVars>>
     ELSE LET widgetLayout == heap[currentLayout[k]]
              maxX == Max(0, GRID_COLS - widgetLayout.w)
              newX == Max(0, Min(maxX, x))
              newY == Max(0, y)
              tempItem == [widgetLayout EXCEPT !.x = newX, !.y = newY]
          IN IF hasCollision(tempItem, widgetId)
             THEN /\ outcome' = "drop:collision"
                  /\ UNCHANGED <<storeVars, viewVars>>
             ELSE /\ updateLayout(currentBreakpoint, currentLayout,
                                  [heap EXCEPT ![currentLayout[k]] = tempItem])
                  /\ outcome' = "drop:moved"

handleDrop(clientX, clientY) ==
  /\ mounted
  /\ placeholder' = hidePlaceholder
  /\ IF draggedWidgetId = Null
     THEN /\ outcome' = "drop:cancelled"
          /\ UNCHANGED <<storeVars, viewVars>>
     ELSE LET gridPos == calculateGridPosition(clientX, clientY)
          IN moveWidgetToPosition(draggedWidgetId, gridPos.x, gridPos.y)
  /\ UNCHANGED <<wsVars, now, mounted, innerWidth, currentBreakpoint, dragVars, resizeVars, zVars>>


\* ---------------------------------------------------------------- resize
\* mousedown on the resize handle of a rendered widget
handleResizeStart(widgetId, clientX, clientY) ==
  /\ widgetId \in RenderedIds
  /\ resizingWidgetId' = widgetId
  /\ resizeStartPos' = [x |-> clientX, y |-> clientY]
  /\ LET currentLayout == glLayouts[currentBreakpoint]
         k == findIndex(currentLayout, widgetId)
     IN IF k # 0
        THEN resizeStartSize' = [w |-> heap[currentLayout[k]].w, h |-> heap[currentLayout[k]].h]
        ELSE UNCHANGED resizeStartSize
  /\ docListeners' = TRUE
  /\ outcome' = "-"
  /\ UNCHANGED <<wsVars, now, storeVars, glVars, dragVars, placeholder, zVars>>

\* document 'mousemove' while the resize listeners are attached
handleResizeMove(clientX, clientY) ==
  /\ docListeners
  /\ IF resizingWidgetId = Null \/ resizeStartSize = UndefinedSize
     THEN UNCHANGED placeholder
     ELSE LET deltaX == clientX - resizeStartPos.x
              deltaY == clientY - resizeStartPos.y
              \* Math.round(deltaX / (columnWidth + MARGIN))
              deltaW == Round(deltaX * GRID_COLS, cellWidthTimesCols)
              deltaH == Round(deltaY, ROW_HEIGHT + MARGIN)
              newW == Max(2, Min(GRID_COLS, resizeStartSize.w + deltaW))
              newH == Max(2, resizeStartSize.h + deltaH)
              currentLayout == glLayouts[currentBreakpoint]
              k == findIndex(currentLayout, resizingWidgetId)
          IN IF k # 0
             THEN placeholder' = showPlaceholder(heap[currentLayout[k]].x,
                                                 heap[currentLayout[k]].y, newW, newH)
             ELSE UNCHANGED placeholder
  /\ outcome' = "-"
  /\ UNCHANGED <<wsVars, now, storeVars, glVars, dragVars, resizeVars, zVars>>

\* The effect of resizeWidget on the store and the component.
resizeWidget(widgetId, w, h) ==
  LET currentLayout == glLayouts[currentBreakpoint]
      k == findIndex(currentLayout, widgetId)
  IN IF k = 0
     THEN UNCHANGED <<storeVars, viewVars>>
     ELSE LET widgetLayout == heap[currentLayout[k]]
              maxW == Max(2, GRID_COLS - widgetLayout.x)
              newW == Max(2, Min(maxW, w))
              newH == Max(2, h)
              tempItem == [widgetLayout EXCEPT !.w = newW, !.h = newH]
          IN IF hasCollision(tempItem, widgetId)
             THEN UNCHANGED <<storeVars, viewVars>>
             ELSE updateLayout(currentBreakpoint, currentLayout,
                               [heap EXCEPT ![currentLayout[k]] = tempItem])

\* What the release found on the placeholder before hiding it: no preview,
\* or a previewed size that is free / collides for the resized item.
PreviewAtRelease ==
  LET currentLayout == glLayouts[currentBreakpoint]
      k == findIndex(currentLayout, resizingWidgetId)
  IN IF placeholder.display # "block" \/ k = 0 THEN "noPreview"
     ELSE IF hasCollision([heap[currentLayout[k]] EXCEPT
                             !.w = placeholder.style.gridColumnEnd,
                             !.h = placeholder.style.gridRowEnd], resizingWidgetId)
          THEN "previewCollides"
          ELSE "previewFree"

\* handleResizeEnd that writes the previewed size as it is.
handleResizeEnd_commitsPreview ==
  /\ docListeners
  /\ IF resizingWidgetId = Null
     THEN /\ outcome' = "-"
          /\ UNCHANGED <<storeVars, viewVars, resizeVars, placeholder>>
     ELSE /\ docListeners' = FALSE
          /\ placeholder' = hidePlaceholder
          /\ LET currentLayout == glLayouts[currentBreakpoint]
                 k == findIndex(currentLayout, resizingWidgetId)
             IN IF placeholder.display = "block" /\ k # 0
                THEN updateLayout(currentBreakpoint, currentLayout,
                                  [heap EXCEPT ![currentLayout[k]].w = placeholder.style.gridColumnEnd,
                                               ![currentLayout[k]].h = placeholder.style.gridRowEnd])
                ELSE UNCHANGED <<storeVars, viewVars>>
          /\ resizingWidgetId' = Null
          /\ outcome' = PreviewAtRelease
          /\ UNCHANGED <<resizeStartPos, resizeStartSize>>
  /\ UNCHANGED <<wsVars, now, mounted, innerWidth, currentBreakpoint, dragVars, zVars>>

\* handleResizeEnd that leaves the document listeners attached.
handleResizeEnd_keepsListeners ==
  /\ docListeners
  /\ IF resizingWidgetId = Null
     THEN /\ outcome' = "-"
          /\ UNCHANGED <<storeVars, viewVars, resizeVars, placeholder>>
     ELSE /\ docListeners' = docListeners
          /\ placeholder' = hidePlaceholder
          /\ LET hidden == hidePlaceholder
                 \* parseInt(style.gridColumnEnd.replace('span ', ''))
                 w == hidden.style.gridColumnEnd
                 h == hidden.style.gridRowEnd
             IN IF hidden.display # "absent" /\ hidden.display # "none" /\ w > 0 /\ h > 0
                THEN resizeWidget(resizingWidgetId, w, h)
                ELSE UNCHANGED <<storeVars, viewVars>>
          /\ resizingWidgetId' = Null
          /\ outcome' = PreviewAtRelease
          /\ UNCHANGED <<resizeStartPos, resizeStartSize>>
  /\ UNCHANGED <<wsVars, now, mounted, innerWidth, currentBreakpoint, dragVars, zVars>>

\* document 'mouseup' while the resize listeners are attached
handleResizeEnd ==
  /\ docListeners
  /\ IF resizingWidgetId = Null
     THEN /\ outcome' = "-"
          /\ UNCHANGED <<storeVars, viewVars, resizeVars, placeholder>>
     ELSE /\ docListeners' = FALSE
          /\ placeholder' = hidePlaceholder
          /\ LET hidden == hidePlaceholder
                 \* parseInt(style.gridColumnEnd.replace('span ', ''))
                 w == hidden.style.gridColumnEnd
                 h == hidden.style.gridRowEnd
             IN IF hidden.display # "absent" /\ hidden.display # "none" /\ w > 0 /\ h > 0
                THEN resizeWidget(resizingWidgetId, w, h)
                ELSE UNCHANGED <<storeVars, viewVars>>
          /\ resizingWidgetId' = Null
          /\ outcome' = PreviewAtRelease
          /\ UNCHANGED <<resizeStartPos, resizeStartSize>>
  /\ UNCHANGED <<wsVars, now, mounted, innerWidth, currentBreakpoint, dragVars, zVars>>

\* ================================================= zustand workspace store
\* `${type}-${++widgetCounter}-${Date.now()}`
generateWidgetId(type, counter) == [type |-> type, n |-> counter, t |-> now]

\* First gap in row-major order among the rows 0..maxY, else the bottom left.
findNextPosition(layout, newWidth) ==
  IF Len(layout) = 0 THEN [x |-> 0, y |-> 0]
  ELSE LET maxY == SetMax({ layout[k].y + layout[k].h : k \in 1..Len(layout) })
           itemsInRow(y) == { k \in 1..Len(layout) :
                                layout[k].y <= y /\ layout[k].y + layout[k].h > y }
           fits(x, y) == ~\E k \in itemsInRow(y) :
                             x < layout[k].x + layout[k].w /\ x + newWidth > layout[k].x
           found == { p \in (0..maxY) \X (0..(12 - newWidth)) : fits(p[2], p[1]) }
       IN IF found # {}
          THEN LET first == CHOOSE p \in found :
                              \A q \in found : p[1] < q[1] \/ (p[1] = q[1] /\ p[2] <= q[2])
               IN [x |-> first[2], y |-> first[1]]
          ELSE [x |-> 0, y |-> maxY]

\* The store after addWidget(type), as a function of the store before it.
useWorkspaceStore_addWidgetTo(st, type) ==
  LET id == generateWidgetId(type, st.counter + 1)
      size == DEFAULT_WIDGET_SIZES[type]
      position == findNextPosition(st.layouts["lg"], size.w)
      layoutItem == [i |-> id, x |-> position.x, y |-> position.y,
                     w |-> size.w, h |-> size.h, minW |-> size.minW, minH |-> size.minH]
  IN [widgets |-> Append(st.widgets, [id |-> id, type |-> type]),
      layouts |-> [bp \in Breakpoints |->
                     CASE bp = "lg" -> Append(st.layouts["lg"], layoutItem)
                       [] bp = "md" -> Append(st.layouts["md"],
                                              [layoutItem EXCEPT !.w = Min(size.w, 6)])
                       [] bp = "sm" -> Append(st.layouts["sm"],
                                              [layoutItem EXCEPT !.w = 6, !.x = 0])],
      counter |-> st.counter + 1]

zState == [widgets |-> zWidgets, layouts |-> zLayouts, counter |-> widgetCounter]

zSet(st) ==
  /\ zWidgets' = st.widgets
  /\ zLayouts' = st.layouts
  /\ widgetCounter' = st.counter

zFrame == UNCHANGED <<wsVars, now, storeVars, glVars, dragVars, resizeVars, placeholder>>

useWorkspaceStore_addWidget(type) ==
  /\ widgetCounter < MaxCounter
  /\ zSet(useWorkspaceStore_addWidgetTo(zState, type))
  /\ outcome' = "-"
  /\ zFrame

useWorkspaceStore_removeWidget(id) ==
  /\ zSet([widgets |-> SeqFilter(zWidgets, [w \in Range(zWidgets) |-> w.id # id]),
           layouts |-> [bp \in Breakpoints |->
                          SeqFilter(zLayouts[bp], [l \in Range(zLayouts[bp]) |-> l.i # id])],
           counter |-> widgetCounter])
  /\ outcome' = "-"
  /\ zFrame

resetWorkspace ==
  /\ zWidgets # <<>>
  /\ zSet([widgets |-> <<>>, layouts |-> EmptyLayouts, counter |-> widgetCounter])
  /\ outcome' = "-"
  /\ zFrame

presetWidgets ==
  [preset \in {"trading", "research", "minimal"} |->
     CASE preset = "trading"  -> <<"market-selector", "orderbook", "chart", "trade-history">>
       [] preset = "research" -> <<"market-selector", "quote", "chart">>
       [] preset = "minimal"  -> <<"market-selector", "orderbook">>]

\* presetWidgets[preset].forEach(type => addWidget(type))
RECURSIVE addEach(_, _)
addEach(st, types) ==
  IF types = <<>> THEN st
  ELSE addEach(useWorkspaceStore_addWidgetTo(st, Head(types)), Tail(types))

loadPreset(preset) ==
  /\ widgetCounter + Len(presetWidgets[preset]) <= MaxCounter
  /\ zSet(addEach([widgets |-> <<>>, layouts |-> EmptyLayouts, counter |-> widgetCounter],
                  presetWidgets[preset]))
  /\ outcome' = "-"
  /\ zFrame

\* ------------------------------------------------------------ state machine
Init ==
  /\ now = 0
  /\ widgets = <<>>
  /\ layouts = EmptyLayouts
  /\ heap = << >>
  /\ activeWidgetId = Null
  /\ mounted = FALSE
  /\ glWidgets = <<>>
  /\ glLayouts = EmptyLayouts
  /\ containers = <<>>
  /\ widgetComponents = {}
  /\ innerWidth \in Widths
  /\ currentBreakpoint = updateBreakpoint(innerWidth)
  /\ draggedWidgetId = Null
  /\ resizingWidgetId = Null
  /\ resizeStartPos = Undefined
  /\ resizeStartSize = UndefinedSize
  /\ docListeners = FALSE
  /\ placeholder = NoPlaceholder
  /\ outcome = "-"
  /\ widgetCounter = 0
  /\ zWidgets = <<>>
  /\ zLayouts = EmptyLayouts
  /\ readyState = [ws \in Clients |-> "NONE"]
  /\ wsSubscriptions = [ws \in Clients |-> {}]
  /\ subscriptions = << >>
  /\ intervals = {}
  /\ inFlight = {}
  /\ subCounter = 0

StoreIds == { widgets[k].id : k \in 1..Len(widgets) }

Next ==
  \/ Tick
  \/ \E type \in WidgetTypes : addWidget(type)
  \/ \E id \in StoreIds : removeWidget(id)
  \/ clearWorkspace
  \/ onMount
  \/ \E width \in Widths : setupBreakpointListener(width)
  \/ \E id \in RenderedIds : handleDragStart(id)
  \/ \E cx \in PointerXs, cy \in PointerYs : handleDragOver(cx, cy)
  \/ \E cx \in PointerXs, cy \in PointerYs : handleDrop(cx, cy)
  \/ handleDragEnd
  \/ \E id \in RenderedIds, g \in ResizeGrabs : handleResizeStart(id, g.x, g.y)
  \/ \E cx \in PointerXs, cy \in PointerYs : handleResizeMove(cx, cy)
  \/ handleResizeEnd

Spec == Init /\ [][Next]_vars

\* The functions workspaceStore.ts exports, called with any arguments, while
\* no GridLayout is on the page.
CandidateIds == { [type |-> type, t |-> t] : type \in StoreWidgetTypes, t \in 0..MaxClock }

StoreNext ==
  \/ Tick
  \/ \E type \in StoreWidgetTypes : addWidget(type)
  \/ \E id \in CandidateIds : removeWidget(id)
  \/ clearWorkspace
  \/ \E id \in CandidateIds \cup {Null} : setActiveWidget(id)

StoreSpec == Init /\ [][StoreNext]_vars

\* Drag events whose clientX or clientY is -Infinity. Every operation that
\* calculateGridPosition applies to a coordinate (subtraction of a finite
\* offset, division by a positive cell size, Math.floor, Math.min with a
\* finite cap, Math.max with 0) is monotone, so -Infinity gives what any
\* coordinate left of and above the container gives: column 0, row 0.
NegativeInfinity == 0 - 1000000
NonFinite == {NegativeInfinity}

NNext ==
  \/ Tick
  \/ \E type \in WidgetTypes : addWidget(type)
  \/ onMount
  \/ \E id \in RenderedIds : handleDragStart(id)
  \/ \E cx \in PointerXs \cup NonFinite, cy \in PointerYs \cup NonFinite : handleDragOver(cx, cy)
  \/ \E cx \in PointerXs \cup NonFinite, cy \in PointerYs \cup NonFinite : handleDrop(cx, cy)
  \/ handleDragEnd

NSpec == Init /\ [][NNext]_vars

\* Drag-overs at pointer positions left of, above, inside, on cell borders
\* of, right of and below the grid, in windows from a phone's width to a
\* desktop's.
GWidths == {320, 767, 1024, 1920}
GPointerXs == {0 - 5, 0, 11, 12, 13, 37, 38, 187, 500, 1000, 2000}
GPointerYs == {0 - 5, 11, 12, 57, 58, 160, 900}

GNext ==
  \/ \E type \in WidgetTypes : addWidget(type)
  \/ onMount
  \/ \E width \in GWidths : setupBreakpointListener(width)
  \/ \E id \in RenderedIds : handleDragStart(id)
  \/ \E cx \in GPointerXs, cy \in GPointerYs : handleDragOver(cx, cy)

GSpec == Init /\ [][GNext]_vars

ZStoreIds == { zWidgets[k].id : k \in 1..Len(zWidgets) }

ZNext ==
  \/ Tick
  \/ \E type \in ZWidgetTypes : useWorkspaceStore_addWidget(type)
  \/ \E id \in ZStoreIds : useWorkspaceStore_removeWidget(id)
  \/ resetWorkspace
  \/ \E preset \in {"trading", "research", "minimal"} : loadPreset(preset)

ZSpec == Init /\ [][ZNext]_vars

\* ===================================================== WebSocket server
\* Each subscription object is known by the number of its creation, which is
\* also the identity of its interval timer.
TimerOf(ticker, sub) == [ticker |-> ticker, id |-> sub.pollInterval]

\* handleUnsubscribe(ws, ticker), on the server's three collections.
handleUnsubscribe_keepsInterval(st, ws, ticker) ==
  IF ticker \in DOMAIN st.subscriptions
  THEN LET sub == st.subscriptions[ticker]
           clients == sub.clients \ {ws}
       IN [subscriptions |->
             IF clients = {}
             THEN [t \in (DOMAIN st.subscriptions) \ {ticker} |-> st.subscriptions[t]]
             ELSE [st.subscriptions EXCEPT ![ticker].clients = clients],
           wsSubscriptions |-> [st.wsSubscriptions EXCEPT ![ws] = @ \ {ticker}],
           intervals |-> st.intervals]
  ELSE st

handleUnsubscribe(st, ws, ticker) ==
  IF ticker \in DOMAIN st.subscriptions
  THEN LET sub == st.subscriptions[ticker]
           clients == sub.clients \ {ws}
       IN [subscriptions |->
             IF clients = {}
             THEN [t \in (DOMAIN st.subscriptions) \ {ticker} |-> st.subscriptions[t]]
             ELSE [st.subscriptions EXCEPT ![ticker].clients = clients],
           wsSubscriptions |-> [st.wsSubscriptions EXCEPT ![ws] = @ \ {ticker}],
           \* clearInterval(sub.pollInterval)
           intervals |-> IF clients = {} THEN st.intervals \ {TimerOf(ticker, sub)}
                                         ELSE st.intervals]
  ELSE st

\* ws.subscriptions.forEach(ticker => handleUnsubscribe(ws, ticker))
RECURSIVE unsubscribeEach(_, _, _)
unsubscribeEach(st, ws, tickers) ==
  IF tickers = {} THEN st
  ELSE LET ticker == CHOOSE t \in tickers : TRUE
       IN unsubscribeEach(handleUnsubscribe(st, ws, ticker), ws, tickers \ {ticker})

ServerState == [subscriptions |-> subscriptions, wsSubscriptions |-> wsSubscriptions,
                intervals |-> intervals]

Becomes(st) ==
  /\ subscriptions' = st.subscriptions
  /\ wsSubscriptions' = st.wsSubscriptions
  /\ intervals' = st.intervals

\* wss.on('connection')
connection(ws) ==
  /\ readyState[ws] = "NONE"
  /\ readyState' = [readyState EXCEPT ![ws] = "OPEN"]
  /\ wsSubscriptions' = [wsSubscriptions EXCEPT ![ws] = {}]
  /\ UNCHANGED <<appVars, subscriptions, intervals, inFlight, subCounter>>

\* message { type: 'subscribe', ticker }
handleSubscribe(ws, ticker) ==
  /\ readyState[ws] \in {"OPEN", "CLOSING"}
  /\ IF ticker \notin DOMAIN subscriptions
     THEN /\ subCounter < MaxSubs
          /\ subCounter' = subCounter + 1
          /\ LET sub == [clients |-> {ws}, lastData |-> FALSE, pollInterval |-> subCounter']
             IN /\ subscriptions' = [t \in (DOMAIN subscriptions) \cup {ticker} |->
                                       IF t = ticker THEN sub ELSE subscriptions[t]]
                \* the initial pollData() and setInterval(pollData, POLL_INTERVAL)
                /\ inFlight' = inFlight \cup {TimerOf(ticker, sub)}
                /\ intervals' = intervals \cup {TimerOf(ticker, sub)}
     ELSE /\ subscriptions' = [subscriptions EXCEPT ![ticker].clients = @ \cup {ws}]
          /\ UNCHANGED <<intervals, inFlight, subCounter>>
  /\ wsSubscriptions' = [wsSubscriptions EXCEPT ![ws] = @ \cup {ticker}]
  /\ UNCHANGED <<appVars, readyState>>

\* message { type: 'unsubscribe', ticker }
unsubscribeMessage(ws, ticker) ==
  /\ readyState[ws] \in {"OPEN", "CLOSING"}
  /\ Becomes(handleUnsubscribe(ServerState, ws, ticker))
  /\ UNCHANGED <<appVars, readyState, inFlight, subCounter>>

\* The socket leaves OPEN; its 'close' event comes later.
closing(ws) ==
  /\ readyState[ws] = "OPEN"
  /\ readyState' = [readyState EXCEPT ![ws] = "CLOSING"]
  /\ UNCHANGED <<appVars, wsSubscriptions, subscriptions, intervals, inFlight, subCounter>>

\* ws.on('close')
close(ws) ==
  /\ readyState[ws] \in {"OPEN", "CLOSING"}
  /\ readyState' = [readyState EXCEPT ![ws] = "CLOSED"]
  /\ Becomes(unsubscribeEach(ServerState, ws, wsSubscriptions[ws]))
  /\ UNCHANGED <<appVars, inFlight, subCounter>>

\* The 30 s cleanup of the connections of wss.clients that are not OPEN.
RECURSIVE cleanupEach(_, _)
cleanupEach(st, clients) ==
  IF clients = {} THEN st
  ELSE LET ws == CHOOSE c \in clients : TRUE
       IN cleanupEach(unsubscribeEach(st, ws, st.wsSubscriptions[ws]), clients \ {ws})

cleanupInterval ==
  /\ \E ws \in Clients : readyState[ws] = "CLOSING"
  /\ Becomes(cleanupEach(ServerState, { ws \in Clients : readyState[ws] = "CLOSING" }))
  /\ UNCHANGED <<appVars, readyState, inFlight, subCounter>>

\* A running interval timer fires: pollData starts its two requests.
pollData(timer) ==
  /\ timer \in intervals
  /\ timer \notin inFlight
  /\ inFlight' = inFlight \cup {timer}
  /\ UNCHANGED <<appVars, readyState, wsSubscriptions, subscriptions, intervals, subCounter>>

\* The requests of a pollData settle: sub.lastData = data on success, on the
\* subscription object the call was created with.
pollCompletes(timer, ok) ==
  /\ timer \in inFlight
  /\ inFlight' = inFlight \ {timer}
  /\ IF /\ ok
        /\ timer.ticker \in DOMAIN subscriptions
        /\ subscriptions[timer.ticker].pollInterval = timer.id
     THEN subscriptions' = [subscriptions EXCEPT ![timer.ticker].lastData = TRUE]
     ELSE UNCHANGED subscriptions
  /\ UNCHANGED <<appVars, readyState, wsSubscriptions, intervals, subCounter>>

Timers == { [ticker |-> t, id |-> n] : t \in Tickers, n \in 1..(MaxSubs + 1) }

WsNext ==
  \/ \E ws \in Clients : connection(ws)
  \/ \E ws \in Clients, ticker \in Tickers : handleSubscribe(ws, ticker)
  \/ \E ws \in Clients, ticker \in Tickers : unsubscribeMessage(ws, ticker)
  \/ \E ws \in Clients : closing(ws)
  \/ \E ws \in Clients : close(ws)
  \/ cleanupInterval
  \/ \E timer \in Timers : pollData(timer)
  \/ \E timer \in Timers, ok \in BOOLEAN : pollCompletes(timer, ok)

WsSpec == Init /\ [][WsNext]_vars

\* ================================================================== claims
\* The items of a breakpoint of the vanilla store, in array order.
Items(bp) == Deref(layouts, heap)[bp]
ItemsAfter(bp) == Deref(layouts', heap')[bp]

\* No two entries of a layout array overlap.
NoOverlapIn(layout) ==
  \A j \in 1..Len(layout), k \in 1..Len(layout) : j < k => ~Overlap(layout[j], layout[k])

\* Steps: a drop of a dragged item that the active layout holds, a drop that
\* was committed, the release of a resize, a step that shows or changes the
\* preview, and a step that changes the geometry of an item object that
\* exists before and after it.
DropStep == outcome' \in {"drop:moved", "drop:collision"}
DropCommitStep == outcome' = "drop:moved"
ReleaseStep == docListeners /\ ~docListeners'
PreviewStep == placeholder'.display = "block" /\ placeholder' # placeholder
GeometryWritten == \E r \in (DOMAIN heap) \cap (DOMAIN heap') : heap'[r] # heap[r]

\* C1: in every reachable state no two distinct layout items of the same
\* breakpoint overlap on both axes (vanilla store).
C1_NoOverlap == \A bp \in Breakpoints : NoOverlapIn(Items(bp))

\* C1 (zustand store): the same for the layouts of useWorkspaceStore.
C1_NoOverlapZustand == \A bp \in Breakpoints : NoOverlapIn(zLayouts[bp])

\* The vanilla layouts never overlap as long as the ids are distinct.
NoOverlapUnlessDuplicateId ==
  (\A j \in 1..Len(widgets), k \in 1..Len(widgets) : j < k => widgets[j].id # widgets[k].id)
    => C1_NoOverlap

\* The first item with the given id in the active breakpoint of the store
\* (0: none), and whether a rectangle overlaps an item other than the k-th.
ActiveIndex(id) == findIndex(layouts[currentBreakpoint], id)
CollidesWithOther(candidate, k) ==
  \E j \in 1..Len(Items(currentBreakpoint)) :
    j # k /\ Overlap(candidate, Items(currentBreakpoint)[j])

\* The candidate rectangle of a drop at a pointer position: the clamped grid
\* position with the dragged item's size.
DropCandidate(k, clientX, clientY) ==
  LET A == Items(currentBreakpoint)[k]
      gridPos == calculateGridPosition(clientX, clientY)
  IN [A EXCEPT !.x = Max(0, Min(Max(0, GRID_COLS - A.w), gridPos.x)), !.y = gridPos.y]

\* C2: for a non-overlapping lg layout, the item addWidget places at the
\* position the placement function returns overlaps none of the items that
\* were there.
C2_PlacementNeverOverlaps ==
  [][LET old == zLayouts["lg"]
         new == zLayouts'["lg"]
     IN (/\ Len(new) = Len(old) + 1
         /\ SubSeq(new, 1, Len(old)) = old
         /\ NoOverlapIn(old))
        => \A k \in 1..Len(old) : ~Overlap(new[Len(new)], old[k])]_vars

\* C3: every layout item of every breakpoint lies inside the 12 columns and
\* is no smaller than its minimum size.
C3_ItemsInBounds ==
  \A bp \in Breakpoints : \A k \in 1..Len(Items(bp)) :
    LET item == Items(bp)[k]
    IN /\ 0 <= item.x
       /\ item.x + item.w <= GRID_COLS
       /\ item.w >= item.minW
       /\ item.h >= item.minH

\* A drop right of the last possible column was committed, clamped to it.
C3_Witness ==
  /\ outcome = "drop:moved"
  /\ \E k \in 1..Len(Items(currentBreakpoint)) :
       LET item == Items(currentBreakpoint)[k]
       IN item.x > 0 /\ item.x + item.w = GRID_COLS

\* C4: a drop whose candidate rectangle overlaps another item of the active
\* breakpoint changes no layout item and writes nothing to the store.
C4_CollidingDropRejected ==
  [][LET k == ActiveIndex(draggedWidgetId)
     IN (DropStep /\ draggedWidgetId # Null /\ k # 0)
        => \A cx \in PointerXs, cy \in PointerYs :
             (CollidesWithOther(DropCandidate(k, cx, cy), k) /\ handleDrop(cx, cy))
               => UNCHANGED <<widgets, layouts, heap>>]_vars

\* C5: a drop at a grid position inside the grid whose candidate collides
\* with no other item leaves the dragged item at exactly that position with
\* its size, and every other item of the active breakpoint as it was.
C5_DropCommitsPosition ==
  [][LET k == ActiveIndex(draggedWidgetId)
         before == Items(currentBreakpoint)
         after == ItemsAfter(currentBreakpoint)
     IN (DropStep /\ draggedWidgetId # Null /\ k # 0)
        => \A cx \in PointerXs, cy \in PointerYs :
             LET gridPos == calculateGridPosition(cx, cy)
                 candidate == [before[k] EXCEPT !.x = gridPos.x, !.y = gridPos.y]
             IN (/\ gridPos.x <= GRID_COLS - before[k].w
                 /\ ~CollidesWithOther(candidate, k)
                 /\ handleDrop(cx, cy))
                => /\ Len(after) = Len(before)
                   /\ after[k] = candidate
                   /\ \A j \in 1..Len(before) : j # k => after[j] = before[j]]_vars

\* A drop at column 2, row 3 was committed.
C5_Witness ==
  /\ outcome = "drop:moved"
  /\ \E k \in 1..Len(Items(currentBreakpoint)) :
       Items(currentBreakpoint)[k].x = 2 /\ Items(currentBreakpoint)[k].y = 3

\* The placeholder previews a new size for the k-th item of the active
\* breakpoint: it is shown at the item's position with another size.
PreviewsResizeOf(k) ==
  LET A == Items(currentBreakpoint)[k]
  IN /\ placeholder.display = "block"
     /\ placeholder.style.gridColumnStart = A.x + 1
     /\ placeholder.style.gridRowStart = A.y + 1
     /\ <<placeholder.style.gridColumnEnd, placeholder.style.gridRowEnd>> # <<A.w, A.h>>

\* C6: the release of a resize whose last previewed size stays inside the
\* grid and collides with no other item stores that size and keeps (x, y).
C6_FreeResizeCommits ==
  [][LET k == ActiveIndex(resizingWidgetId)
         before == Items(currentBreakpoint)
         candidate == [before[k] EXCEPT !.w = placeholder.style.gridColumnEnd,
                                        !.h = placeholder.style.gridRowEnd]
     IN (/\ ReleaseStep
         /\ draggedWidgetId = Null
         /\ k # 0
         /\ PreviewsResizeOf(k)
         /\ candidate.x + candidate.w <= GRID_COLS
         /\ ~CollidesWithOther(candidate, k))
        => ItemsAfter(currentBreakpoint)[k] = candidate]_vars

\* C7: the release of a resize whose last previewed size collides with
\* another item leaves the item at the size captured at the start of the
\* gesture and changes no item.
C7_CollidingResizeReverts ==
  [][LET k == ActiveIndex(resizingWidgetId)
         before == Items(currentBreakpoint)
         candidate == [before[k] EXCEPT !.w = placeholder.style.gridColumnEnd,
                                        !.h = placeholder.style.gridRowEnd]
     IN (/\ ReleaseStep
         /\ k # 0
         /\ placeholder.display = "block"
         /\ CollidesWithOther(candidate, k))
        => /\ UNCHANGED <<widgets, layouts, heap>>
           /\ ItemsAfter(currentBreakpoint)[k].w = resizeStartSize.w
           /\ ItemsAfter(currentBreakpoint)[k].h = resizeStartSize.h]_vars

\* A resize was released on a previewed size that collides.
C7_Witness == outcome = "previewCollides"

\* C8: a committed drag or resize changes no item of the two breakpoints
\* that are not active.
C8_OtherBreakpointsUntouched ==
  [][(DropCommitStep \/ (ReleaseStep /\ GeometryWritten))
     => \A bp \in Breakpoints \ {currentBreakpoint} : ItemsAfter(bp) = Items(bp)]_vars

\* C9: while a drag or a resize is in flight no step starts another gesture
\* or replaces the id and the start data of the one in progress: a second
\* drag-start or resize-start is ignored.
C9_SecondGrabIgnored ==
  [][(draggedWidgetId # Null \/ resizingWidgetId # Null)
     => /\ draggedWidgetId' \in {draggedWidgetId, Null}
        /\ resizingWidgetId' \in {resizingWidgetId, Null}
        /\ UNCHANGED <<resizeStartPos, resizeStartSize>>]_vars

\* C10: pointer moves (dragover, resize mousemove: the steps that show or
\* change the preview) change no layout item of the store or of the
\* GridLayout, and an item's geometry is written only by a committed drop or
\* by the release of a resize.
C10_MovesDoNotWrite ==
  [][/\ PreviewStep => UNCHANGED <<widgets, layouts, heap, glWidgets, glLayouts>>
     /\ GeometryWritten => (DropCommitStep \/ ReleaseStep)]_vars

\* A drag-over previews a position that differs from the dragged item's.
C10_Witness ==
  /\ draggedWidgetId # Null
  /\ resizingWidgetId = Null
  /\ placeholder.display = "block"
  /\ LET k == ActiveIndex(draggedWidgetId)
     IN /\ k # 0
        /\ placeholder.style.gridColumnStart # Items(currentBreakpoint)[k].x + 1

\* ------------------------------------------------------------- C11 .. C20
\* A step that appended one widget to the store, and the id it created.
AddStep == Len(widgets') = Len(widgets) + 1 /\ SubSeq(widgets', 1, Len(widgets)) = widgets
CreatedId == widgets'[Len(widgets')].id

\* C11: removeWidget of the id an addWidget just created gives back the
\* widget list and, as a set of items, every breakpoint's layout from before
\* the addWidget.
C11_AddThenRemoveRestores ==
  [][AddStep =>
       /\ withoutWidget(widgets', CreatedId) = widgets
       /\ \A bp \in Breakpoints :
            Range(Deref(withoutItem(layouts', heap', CreatedId), heap')[bp]) = Range(Items(bp))]_vars

\* C12: no two widgets of the list and no two items of a breakpoint's layout
\* have the same id.
C12_UniqueIds ==
  /\ \A j \in 1..Len(widgets), k \in 1..Len(widgets) : j < k => widgets[j].id # widgets[k].id
  /\ \A bp \in Breakpoints : \A j \in 1..Len(Items(bp)), k \in 1..Len(Items(bp)) :
       j < k => Items(bp)[j].i # Items(bp)[k].i

\* C12 (zustand store): the same for useWorkspaceStore.
C12_UniqueIdsZustand ==
  /\ \A j \in 1..Len(zWidgets), k \in 1..Len(zWidgets) : j < k => zWidgets[j].id # zWidgets[k].id
  /\ \A bp \in Breakpoints : \A j \in 1..Len(zLayouts[bp]), k \in 1..Len(zLayouts[bp]) :
       j < k => zLayouts[bp][j].i # zLayouts[bp][k].i

\* C13: after removeWidget(id) no widget and no item of any breakpoint has
\* that id, and the widgets and items with another id are what they were, in
\* their order.
C13_RemoveRemovesEverywhere ==
  [][\A id \in CandidateIds :
       (outcome' = "change" /\ removeWidget(id)) =>
         /\ \A k \in 1..Len(widgets') : widgets'[k].id # id
         /\ widgets' = SeqFilter(widgets, [w \in Range(widgets) |-> w.id # id])
         /\ \A bp \in Breakpoints :
              /\ \A k \in 1..Len(ItemsAfter(bp)) : ItemsAfter(bp)[k].i # id
              /\ ItemsAfter(bp) = SeqFilter(Items(bp), [l \in Range(Items(bp)) |-> l.i # id])]_vars

\* The first of two widgets was removed and the second one is still there.
C13_Witness ==
  /\ outcome = "change"
  /\ Len(widgets) = 1
  /\ \A bp \in Breakpoints : Len(Items(bp)) = 1 /\ Items(bp)[1].y = 5

\* C14: removeWidget(id) with an id no widget and no layout item has leaves
\* widgets, the three layouts and activeWidgetId as they are, and a second
\* call would change nothing either.
C14_RemoveUnknownIsNoOp ==
  [][\A id \in CandidateIds :
       (/\ id \notin StoreIds
        /\ \A bp \in Breakpoints : \A k \in 1..Len(Items(bp)) : Items(bp)[k].i # id
        /\ removeWidget(id))
       => /\ widgets' = widgets
          /\ \A bp \in Breakpoints : ItemsAfter(bp) = Items(bp)
          /\ activeWidgetId' = activeWidgetId
          /\ withoutWidget(widgets', id) = widgets'
          /\ withoutItem(layouts', heap', id) = layouts']_vars

\* C15: the placement function is the row-major first fit (findNextPosition):
\* (0,0) for no items, (3,0) for one item {0,0,3,5} and width 3, (0,4) for
\* the items {0,0,6,4}, {6,0,6,4} and width 6; and addWidget puts every new
\* widget's lg item at the position the first fit gives for the items
\* before the call.
FirstFitExamples ==
  /\ findNextPosition(<<>>, 3) = [x |-> 0, y |-> 0]
  /\ findNextPosition(<<[x |-> 0, y |-> 0, w |-> 3, h |-> 5]>>, 3) = [x |-> 3, y |-> 0]
  /\ findNextPosition(<<[x |-> 0, y |-> 0, w |-> 6, h |-> 4],
                        [x |-> 6, y |-> 0, w |-> 6, h |-> 4]>>, 6) = [x |-> 0, y |-> 4]

C15_AddPlacesAtFirstFit ==
  [][AddStep =>
       LET new == ItemsAfter("lg")[Len(ItemsAfter("lg"))]
       IN /\ FirstFitExamples
          /\ new.i = CreatedId
          /\ [x |-> new.x, y |-> new.y] = findNextPosition(Items("lg"), new.w)]_vars

\* C16: the active breakpoint always agrees with the last observed viewport
\* width: lg from 1024 up, md from 768 to 1023, sm below 768.
C16_BreakpointMatchesWidth ==
  /\ innerWidth >= 1024 => currentBreakpoint = "lg"
  /\ (768 <= innerWidth /\ innerWidth < 1024) => currentBreakpoint = "md"
  /\ innerWidth < 768 => currentBreakpoint = "sm"

C16_Witness ==
  /\ outcome = "resize"
  /\ mounted
  /\ innerWidth = 768
  /\ currentBreakpoint = "md"
  /\ Len(containers) = 2

\* Store.setState dispatches one 'change' event to the subscribed observers.
\* It is reached by the store's own operations (label "change") and by a
\* drop that moved a widget ("drop:moved"), and by no other step.
Dispatched == outcome' \in {"change", "drop:moved"}
RemovalStep == Len(widgets') < Len(widgets)
BreakpointSwitch == currentBreakpoint' # currentBreakpoint
RejectedStep == outcome' \in {"drop:collision", "drop:notFound", "drop:cancelled",
                              "previewCollides"}

\* C17: every committed mutation (widget creation, removal, committed drop,
\* breakpoint switch) invokes the change observers, and a pointer move or a
\* rejected drag or resize does not.
C17_ObserversOncePerCommit ==
  [][/\ (AddStep \/ RemovalStep \/ DropCommitStep \/ BreakpointSwitch) => Dispatched
     /\ (PreviewStep \/ RejectedStep) => ~Dispatched]_vars

\* C18: a drag-over or a drop whose clientX or clientY is not finite changes
\* no layout item and commits nothing.
C18_NonFinitePointerIgnored ==
  [][\A cx \in PointerXs \cup NonFinite, cy \in PointerYs \cup NonFinite :
       (/\ cx \in NonFinite \/ cy \in NonFinite
        /\ handleDragOver(cx, cy) \/ handleDrop(cx, cy))
       => /\ \A bp \in Breakpoints : ItemsAfter(bp) = Items(bp)
          /\ ~DropCommitStep]_vars

\* C19: between events every rendered widget container has the grid
\* placement (column start x+1, span w, row start y+1, span h) of that
\* widget's item in the store's layout of the active breakpoint.
C19_ContainersShowStoreLayout ==
  mounted =>
    \A c \in 1..Len(containers) :
      LET k == ActiveIndex(containers[c].widgetId)
      IN k # 0 =>
           LET item == Items(currentBreakpoint)[k]
           IN containers[c].style = applyGridLayout(item.x, item.y, item.w, item.h)

\* C20: a mounted GridLayout has one widget container per widget of the
\* store, in the store's order and with the store's ids, and holds a widget
\* component for exactly the ids of the store's widgets: a removed widget
\* has no container and its component is unmounted and dropped.
C20_OneContainerPerWidget ==
  mounted =>
    /\ Len(containers) = Len(widgets)
    /\ \A k \in 1..Len(widgets) : containers[k].widgetId = widgets[k].id
    /\ widgetComponents = WidgetIds(widgets)

\* Mounted, two widgets created at different times, the first one removed.
C20_Witness ==
  /\ mounted
  /\ outcome = "change"
  /\ Len(widgets) = 1
  /\ Len(containers) = 1
  /\ Items("lg")[1].y = 5
  /\ widgetComponents = {widgets[1].id}

\* ============================================================ C21 .. C30

\* C21: a committed drop at the pointer position of the last drag-over puts
\* the item at the previewed cell: the placeholder's column and row are the
\* committed x and y, and both lie within [0, GRID_COLS - w].
C21_CommitMatchesPreview ==
  [][LET k == ActiveIndex(draggedWidgetId)
     IN (DropCommitStep /\ draggedWidgetId # Null /\ k # 0 /\ placeholder.display = "block")
        => \A cx \in PointerXs, cy \in PointerYs :
             LET gridPos == calculateGridPosition(cx, cy)
                 item == Items(currentBreakpoint)[k]
                 after == ItemsAfter(currentBreakpoint)[k]
             IN (/\ placeholder = showPlaceholder(gridPos.x, gridPos.y, item.w, item.h)
                 /\ handleDrop(cx, cy))
                => /\ placeholder.style.gridColumnStart = after.x + 1
                   /\ placeholder.style.gridRowStart = after.y + 1
                   /\ after.x <= GRID_COLS - item.w]_vars

\* C22: every size a resize previews respects the resized item's own limits:
\* at least minW columns and minH rows, and not past the last column
\* (x + w <= GRID_COLS).
C22_ResizePreviewWithinLimits ==
  [][LET k == ActiveIndex(resizingWidgetId)
     IN (PreviewStep /\ resizingWidgetId # Null /\ k # 0)
        => \A cx \in PointerXs, cy \in PointerYs :
             handleResizeMove(cx, cy)
             => LET item == Items(currentBreakpoint)[k]
                    w == placeholder'.style.gridColumnEnd
                    h == placeholder'.style.gridRowEnd
                IN /\ w >= item.minW
                   /\ h >= item.minH
                   /\ item.x + w <= GRID_COLS]_vars

\* C23: a breakpoint switch leaves the widget list and the geometry of every
\* item of every breakpoint's layout as they were, in the store and in the
\* GridLayout's copy, also in the middle of a drag or a resize.
C23_SwitchKeepsGeometry ==
  [][BreakpointSwitch
     => /\ widgets' = widgets
        /\ \A bp \in Breakpoints : ItemsAfter(bp) = Items(bp)
        /\ glWidgets' = glWidgets
        /\ Deref(glLayouts', heap') = Deref(glLayouts, heap)
        /\ UNCHANGED <<draggedWidgetId, resizingWidgetId>>]_vars

\* A switch in the middle of a drag of a widget that is not in column 0.
C23_Witness ==
  /\ outcome = "resize"
  /\ draggedWidgetId # Null
  /\ placeholder.display = "block"
  /\ ActiveIndex(draggedWidgetId) # 0
  /\ Items(currentBreakpoint)[ActiveIndex(draggedWidgetId)].x = 2

ResizeReleased == outcome' \in {"noPreview", "previewFree", "previewCollides"}

\* C24: every gesture ends in Idle. A dragend leaves no widget marked as
\* dragged; the mouseup of a resize leaves no widget marked as resizing and
\* the document listeners removed, whatever the release found; the document
\* listeners are attached exactly while a widget is marked as resizing; and
\* a drop without a dragged widget, or a mouseup without a resized one,
\* changes no layout.
C24_GesturesEndIdle ==
  [][/\ handleDragEnd => draggedWidgetId' = Null
     /\ ResizeReleased => (resizingWidgetId' = Null /\ ~docListeners')
     /\ docListeners' <=> (resizingWidgetId' # Null)
     /\ (draggedWidgetId = Null /\ outcome' = "drop:cancelled")
          => \A bp \in Breakpoints : ItemsAfter(bp) = Items(bp)
     /\ (resizingWidgetId = Null /\ handleResizeEnd)
          => \A bp \in Breakpoints : ItemsAfter(bp) = Items(bp)]_vars

\* Idle again after a resize whose last preview collided.
C24_Witness ==
  /\ outcome = "previewCollides"
  /\ resizingWidgetId = Null
  /\ draggedWidgetId = Null
  /\ ~docListeners
  /\ placeholder.display = "none"

\* Candidate rectangles: in and next to the cells the widgets take.
CandidateRects ==
  { [x |-> x, y |-> y, w |-> w, h |-> h] : x \in {0, 2, 3}, y \in {0, 3, 5},
                                           w \in {3, 12}, h \in {5, 7} }
Columns(r) == r.x .. (r.x + r.w - 1)
Rows(r) == r.y .. (r.y + r.h - 1)
SharesCell(a, b) == Columns(a) \cap Columns(b) # {} /\ Rows(a) \cap Rows(b) # {}

\* C25: hasCollision(candidate, excludeId) is true exactly when some item of
\* the active breakpoint with another id shares a grid cell with the
\* candidate; rectangles that only share an edge share no cell, and an item
\* alone in its layout does not collide at its own position when its id is
\* excluded.
C25_CollisionIsCellOverlap ==
  mounted =>
    /\ \A c \in CandidateRects : \A ex \in StoreIds \cup {Null} :
         hasCollision(c, ex)
         <=> \E k \in 1..Len(Items(currentBreakpoint)) :
               /\ Items(currentBreakpoint)[k].i # ex
               /\ SharesCell(c, Items(currentBreakpoint)[k])
    /\ \A k \in 1..Len(Items(currentBreakpoint)) :
         LET item == Items(currentBreakpoint)[k]
         IN hasCollision(item, item.i)
            <=> \E j \in 1..Len(Items(currentBreakpoint)) :
                  /\ Items(currentBreakpoint)[j].i # item.i
                  /\ SharesCell(item, Items(currentBreakpoint)[j])

\* Two widgets one above the other: the upper one is free where it is, with
\* the lower one at its edge, and collides three rows further down.
C25_Witness ==
  /\ mounted
  /\ Len(Items(currentBreakpoint)) = 2
  /\ LET A == Items(currentBreakpoint)[1]
         B == Items(currentBreakpoint)[2]
     IN /\ A.i # B.i
        /\ A.y + A.h = B.y
        /\ ~hasCollision(A, A.i)
        /\ hasCollision([A EXCEPT !.y = 3], A.i)
        /\ ~hasCollision([A EXCEPT !.x = 3, !.y = 3], A.i)

\* floor(n / d) for d > 0, as the integer q with q * d <= n < (q + 1) * d.
FloorOf(n, d) == CHOOSE q \in (0 - 10)..100 : q * d <= n /\ n < (q + 1) * d

\* C26: the cell calculateGridPosition gives for a pointer position, shown by
\* the placeholder of a drag-over, has a column in 0..GRID_COLS-1 and a row
\* >= 0; the column is floor(relativeX / (columnWidth + MARGIN)) and the row
\* is floor(relativeY / (ROW_HEIGHT + MARGIN)), each clamped; and the
\* drag-over changes no widget and no layout.
C26_GridPositionInRange ==
  [][LET k == findIndex(glLayouts[currentBreakpoint], draggedWidgetId)
     IN (draggedWidgetId # Null /\ k # 0)
        => \A cx \in GPointerXs, cy \in GPointerYs :
             handleDragOver(cx, cy)
             => LET x == placeholder'.style.gridColumnStart - 1
                    y == placeholder'.style.gridRowStart - 1
                    \* relativeX / (columnWidth + MARGIN), both times GRID_COLS
                    fx == FloorOf((cx - PADDING) * GRID_COLS, innerWidth - 2 * PADDING + MARGIN)
                    fy == FloorOf(cy - PADDING, ROW_HEIGHT + MARGIN)
                IN /\ x \in 0..(GRID_COLS - 1)
                   /\ y >= 0
                   /\ x = (IF fx < 0 THEN 0 ELSE IF fx > GRID_COLS - 1 THEN GRID_COLS - 1 ELSE fx)
                   /\ y = (IF fy < 0 THEN 0 ELSE fy)
                   /\ UNCHANGED <<widgets, layouts, heap, glWidgets, glLayouts>>]_vars

\* A drag-over right of and below the grid of a 320 pixel window: last
\* column, row 19.
C26_Witness ==
  /\ innerWidth = 320
  /\ draggedWidgetId # Null
  /\ placeholder.display = "block"
  /\ placeholder.style.gridColumnStart = GRID_COLS
  /\ placeholder.style.gridRowStart = 20

\* C27: after a store change that made the mounted GridLayout render again,
\* every widget container holds the root element of its widget's component,
\* also when the component was mounted before (stated for widgets with
\* distinct ids).
C27_ContainersHoldComponents ==
  [][(/\ mounted
      /\ outcome' = "change"
      /\ \A j, k \in 1..Len(widgets') : widgets'[j].id = widgets'[k].id => j = k)
     => \A c \in 1..Len(containers') : containers'[c].hasComponent]_vars

DropEvent == outcome' \in {"drop:moved", "drop:collision", "drop:notFound", "drop:cancelled"}

\* C28: when the dragged or resized widget is no longer in the store, the
\* drop or the release of the resize changes no widget and no item of any
\* breakpoint, and no item with the removed id appears.
C28_GestureOnRemovedWidget ==
  [][/\ (DropEvent /\ draggedWidgetId # Null /\ draggedWidgetId \notin StoreIds)
        => /\ widgets' = widgets
           /\ \A bp \in Breakpoints :
                /\ ItemsAfter(bp) = Items(bp)
                /\ \A k \in 1..Len(ItemsAfter(bp)) : ItemsAfter(bp)[k].i # draggedWidgetId
     /\ (ResizeReleased /\ resizingWidgetId # Null /\ resizingWidgetId \notin StoreIds)
        => /\ widgets' = widgets
           /\ \A bp \in Breakpoints :
                /\ ItemsAfter(bp) = Items(bp)
                /\ \A k \in 1..Len(ItemsAfter(bp)) : ItemsAfter(bp)[k].i # resizingWidgetId]_vars

\* A drop of a widget that was removed during its drag, with another widget
\* still in the grid.
C28_Witness ==
  /\ outcome = "drop:notFound"
  /\ draggedWidgetId # Null
  /\ draggedWidgetId \notin StoreIds
  /\ Len(widgets) = 1

ItemsOf(bp, id) == { k \in 1..Len(Items(bp)) : Items(bp)[k].i = id }

\* C29: in every breakpoint the ids of the layout items are the ids of the
\* widgets, and every widget has exactly one item there.
C29_WidgetsMatchItems ==
  \A bp \in Breakpoints :
    /\ { Items(bp)[k].i : k \in 1..Len(Items(bp)) } = StoreIds
    /\ \A w \in 1..Len(widgets) : Cardinality(ItemsOf(bp, widgets[w].id)) = 1

SubscribersOf(ticker) == { ws \in Clients : ticker \in wsSubscriptions[ws] }
RunningFor(ticker) == { timer \in intervals : timer.ticker = ticker }

\* C30: a ticker has an entry in the server's subscriptions exactly when
\* some client is subscribed to it; a ticker with an entry has exactly one
\* running poll interval, the entry's own, and a ticker without an entry
\* has none; and the entry's client set is the set of clients that have the
\* ticker in their own subscription set.
C30_SubscriptionsMatchClients ==
  \A ticker \in Tickers :
    /\ (ticker \in DOMAIN subscriptions) <=> (SubscribersOf(ticker) # {})
    /\ IF ticker \in DOMAIN subscriptions
       THEN /\ RunningFor(ticker) = {TimerOf(ticker, subscriptions[ticker])}
            /\ subscriptions[ticker].clients = SubscribersOf(ticker)
       ELSE RunningFor(ticker) = {}

\* A ticker subscribed again after its first subscription ended, with a poll
\* of the first subscription still waiting and one client gone.
C30_Witness ==
  /\ "KXA" \in DOMAIN subscriptions
  /\ subscriptions["KXA"].pollInterval = 2
  /\ subscriptions["KXA"].clients = {"ws2"}
  /\ [ticker |-> "KXA", id |-> 1] \in inFlight
  /\ readyState["ws1"] = "CLOSED"

====
